---- MODULE Spec2Model ----
(***************************************************************************)
(* Model of the users CRUD service (crud-with-sea_orm/src/api/users) and   *)
(* of its schema migrator (crud-with-sea_orm/migration).                   *)
(*                                                                         *)
(* A handler is a sequence of database round-trips; every `.await` on the  *)
(* connection is one atomic step and requests interleave between steps.    *)
(* The users table is a set of rows, the primary key is drawn from an      *)
(* auto-increment counter, and every round-trip may fail with a DbErr.     *)
(***************************************************************************)
EXTENDS Integers, Sequences, FiniteSets, TLC

\* Bounds of the model.
NumReqs == 2          \* requests in flight at once
MaxId == 2            \* rows the auto-increment counter may hand out
MaxStr == 2           \* distinct string values for name and for email
MaxClock == 5         \* applied_at stamps the database clock may hand out

Reqs == 1..NumReqs
Ids == 1..MaxId
Strs == 1..MaxStr

\* Option<T>: None is the empty sequence, Some(x) a sequence of one element.
None == <<>>
Some(x) == <<x>>
OptStrs == {None} \cup {Some(s) : s \in Strs}

VARIABLES
    users,      \* the users table: a set of rows [id, name, email, created_at]
    nextId,     \* the table's auto-increment counter
    req,        \* req[r]: the request in slot r, where its handler stands, its response
    alone,      \* alone[r]: no other request did a round-trip while r was in flight
    deletedOk,  \* deletedOk[i]: how many DELETE(i) have responded 200
    ledger,     \* seaql_migrations: applied migration name -> applied_at
    tables,     \* the tables the schema holds
    seeded,     \* the seed rows are in posts
    clock,      \* the database clock that stamps applied_at
    mig         \* the migrator run in progress

apiVars == <<users, nextId, req, alone, deletedOk>>
migVars == <<ledger, tables, seeded, clock, mig>>
vars == <<users, nextId, req, alone, deletedOk, ledger, tables, seeded, clock, mig>>

----------------------------------------------------------------------------
\* user::Model -> UserResponse (created_at is not part of the response).
ToResponse(m) == [id |-> m.id, name |-> m.name, email |-> m.email]

\* User::find_by_id(id).one(db)
FindById(tbl, id) ==
    LET s == {u \in tbl : u.id = id}
    IN  IF s = {} THEN None ELSE Some(CHOOSE u \in s : TRUE)

\* All orders in which User::find().all(db) may return the rows of tbl.
RowOrders(tbl) ==
    {s \in [1..Cardinality(tbl) -> tbl] : \A i, j \in DOMAIN s : i # j => s[i] # s[j]}

\* Faulty variant: only the first row fetched is mapped (.one() for .all()).
ListBody_First(rows) == IF rows = <<>> THEN <<>> ELSE <<ToResponse(rows[1])>>

\* The response body of list_users for the rows in the order the store gave them.
ListBody(rows) == [i \in DOMAIN rows |-> ToResponse(rows[i])]

\* Faulty variant: the insert stores the two strings in each other's column.
NewRow_Swapped(id, name, email) ==
    [id |-> id, name |-> email, email |-> name, created_at |-> None]

\* user::ActiveModel { name: Set(..), email: Set(..), created_at: Set(None), .. }
\* inserted with the id the counter hands out.
NewRow(id, name, email) ==
    [id |-> id, name |-> name, email |-> email, created_at |-> None]

\* model.into(): every column of the ActiveModel is Unchanged(value).
IntoActiveModel(m) ==
    [id |-> <<"Unchanged", m.id>>, name |-> <<"Unchanged", m.name>>,
     email |-> <<"Unchanged", m.email>>]

\* Faulty variant: a field the body leaves out is set to the empty string (0)
\* (unwrap_or_default() for if let Some).
ApplyBody_Default(active, name, email) ==
    [active EXCEPT
        !.name = IF name # None THEN <<"Set", name[1]>> ELSE <<"Set", 0>>,
        !.email = IF email # None THEN <<"Set", email[1]>> ELSE <<"Set", 0>>]

\* if let Some(name) = &body.name { active.name = Set(..) }, and the same for email.
ApplyBody(active, name, email) ==
    [active EXCEPT
        !.name = IF name # None THEN <<"Set", name[1]>> ELSE @,
        !.email = IF email # None THEN <<"Set", email[1]>> ELSE @]

\* Faulty variant: the statement writes every column of the ActiveModel, the values read
\* at find time included.
UpdatedRow_AllColumns(cur, active) ==
    [cur EXCEPT !.name = active.name[2], !.email = active.email[2]]

\* The row after UPDATE users SET <the Set columns> WHERE id = .. : sea-orm puts
\* only the columns whose ActiveValue is Set into the statement.
UpdatedRow(cur, active) ==
    [cur EXCEPT
        !.name = IF active.name[1] = "Set" THEN active.name[2] ELSE @,
        !.email = IF active.email[1] = "Set" THEN active.email[2] ELSE @]

\* Faulty variant: the write is an upsert (save() on a row that is gone inserts it).
UpdateTable_Upsert(tbl, active) ==
    LET cur == FindById(tbl, active.id[2])
    IN  IF cur = None
        THEN tbl \cup {[id |-> active.id[2], name |-> active.name[2],
                        email |-> active.email[2], created_at |-> None]}
        ELSE (tbl \ {cur[1]}) \cup {UpdatedRow(cur[1], active)}

\* active.update(db) on the table: the table afterwards. A statement whose
\* WHERE matches no row changes nothing.
UpdateTable(tbl, active) ==
    LET cur == FindById(tbl, active.id[2])
    IN  IF cur = None THEN tbl
        ELSE (tbl \ {cur[1]}) \cup {UpdatedRow(cur[1], active)}

\* active.update(db): the model it returns, None standing for
\* DbErr::RecordNotUpdated (no row matched).
UpdateResult(tbl, active) == FindById(UpdateTable(tbl, active), active.id[2])

\* Faulty variants: the statement removes nothing; the statement has no WHERE.
DeleteTable_Keep(tbl, id) == tbl
DeleteTable_All(tbl, id) == {}

\* User::delete_by_id(id).exec(db): the table afterwards and rows_affected.
DeleteTable(tbl, id) == {u \in tbl : u.id # id}
RowsAffected(tbl, id) == Cardinality({u \in tbl : u.id = id})

\* Faulty variant: rows_affected >= 0 for rows_affected > 0.
DeleteStatus_Always(rows_affected) == IF rows_affected >= 0 THEN 200 ELSE 404

\* if res.rows_affected > 0 { Ok } else { NotFound }
DeleteStatus(rows_affected) == IF rows_affected > 0 THEN 200 ELSE 404

----------------------------------------------------------------------------
\* The schema migrator.

\* Migrator::migrations(): the registered steps, in registration order.
migrations ==
    <<"m20220101_000001_post", "m20260121_020308_users", "m20220120_000002_seed_posts">>

\* The registered steps the ledger does not hold, and those it holds, as
\* positions in the registered list.
Pending == {i \in DOMAIN migrations : migrations[i] \notin DOMAIN ledger}
Applied == {i \in DOMAIN migrations : migrations[i] \in DOMAIN ledger}

Min(S) == CHOOSE x \in S : \A y \in S : x <= y
Max(S) == CHOOSE x \in S : \A y \in S : x >= y

\* up runs the pending steps first to last, down the applied ones last to first.
NextUp == Min(Pending)

\* Faulty variant: down reverts in the order of up.
NextDown_First == Min(Applied)

NextDown == Max(Applied)

\* Can step i's `up` succeed on this schema?  The seed inserts into posts.
UpRuns(i) == migrations[i] = "m20220120_000002_seed_posts" => "posts" \in tables
\* Can step i's `down` succeed?  drop_table has no IF EXISTS.
DownRuns(i) ==
    /\ migrations[i] = "m20220101_000001_post" => "posts" \in tables
    /\ migrations[i] = "m20260121_020308_users" => "users" \in tables
    /\ migrations[i] = "m20220120_000002_seed_posts" => "posts" \in tables

\* The tables after step i's `up` (create_table .. if_not_exists) and `down`.
TablesUp(i) ==
    IF migrations[i] = "m20220101_000001_post" THEN tables \cup {"posts"}
    ELSE IF migrations[i] = "m20260121_020308_users" THEN tables \cup {"users"}
    ELSE tables
TablesDown(i) ==
    IF migrations[i] = "m20220101_000001_post" THEN tables \ {"posts"}
    ELSE IF migrations[i] = "m20260121_020308_users" THEN tables \ {"users"}
    ELSE tables
\* The seed rows after step i's `up` and `down`: they go with their table.
SeededUp(i) == IF migrations[i] = "m20220120_000002_seed_posts" THEN TRUE ELSE seeded
SeededDown(i) ==
    IF migrations[i] \in {"m20220120_000002_seed_posts", "m20220101_000001_post"}
    THEN FALSE ELSE seeded

\* No run: the result of the last one, and for an Err the step that failed
\* (at) and the direction it ran in (was).
IdleMig ==
    [cmd |-> "idle", left |-> 0, then |-> "none", result |-> "none", at |-> 0,
     was |-> "none"]

EmptyLedger == [n \in {} |-> 0]

\* The schema after `up` has applied every step: where the API starts.
Migrated ==
    /\ ledger = [n \in {migrations[i] : i \in DOMAIN migrations} |->
                    CHOOSE i \in DOMAIN migrations : migrations[i] = n]
    /\ tables = {"posts", "users"}
    /\ seeded = TRUE
    /\ clock = Len(migrations) + 1
    /\ mig = IdleMig


----------------------------------------------------------------------------
\* A slot: the request (op, id, name, email), the handler's position (pc), the
\* ActiveModel an update built (active), and the response once the handler has
\* returned.  Only the most recent response is kept: a slot that holds an older
\* one is idle.  A GET also notes the id of the CREATE it directly follows
\* (after), 0 when it follows none.
IdleReq ==
    [op |-> "idle", pc |-> "idle", id |-> 0, name |-> None, email |-> None,
     active |-> None, status |-> 0, body |-> <<>>, err |-> "none", after |-> 0]

NewReq(op, id, name, email) ==
    [IdleReq EXCEPT !.op = op, !.id = id, !.name = name, !.email = email]

\* Faulty variant: the error is taken for an absent row (.ok().flatten()).
MapErr_NotFound(q, e) ==
    [q EXCEPT !.pc = "done", !.name = None, !.email = None, !.active = None,
              !.status = 404, !.err = e]

\* .map_err(|e| ErrorInternalServerError(..))? : the handler returns 500 at once.
\* e is "DbErr" for a round-trip that failed, "RecordNotUpdated" for an update
\* that matched no row.  The request body and the locals go with the handler.
MapErr(q, e) ==
    [q EXCEPT !.pc = "done", !.name = None, !.email = None, !.active = None,
              !.status = 500, !.err = e]

\* The handler returns a response.
Respond(q, status, body) ==
    [q EXCEPT !.pc = "done", !.status = status, !.body = body]

\* A new request may enter slot r: it takes the first slot no handler runs in.
Idle(r) == req[r].pc \in {"idle", "done"}
Free(r) == Idle(r) /\ \A s \in 1..(r - 1) : ~Idle(s)

\* Slot r becomes q; if q is a response, it replaces the response kept so far.
Put(r, q) ==
    [s \in Reqs |->
        IF s = r THEN q
        ELSE IF q.pc = "done" /\ req[s].pc = "done" THEN IdleReq
        ELSE req[s]]

\* Slot r does a round-trip: every other request in flight is no longer alone.
Touched(r) ==
    [q \in Reqs |->
        IF q = r THEN (IF Free(r) THEN TRUE ELSE alone[r])
        ELSE IF req[q].pc \in {"reread", "write"} THEN FALSE
        ELSE alone[q]]

\* The id of the CREATE whose 201 is the response kept, if it ran alone (no
\* round-trip of another request between its insert and its re-read), or 0.
JustCreated ==
    LET S == {s \in Reqs : /\ req[s].op = "create" /\ req[s].pc = "done"
                           /\ req[s].status = 201 /\ alone[s]}
    IN  IF S = {} THEN 0 ELSE req[CHOOSE s \in S : TRUE].id

\* The bookkeeping of a round-trip by slot r.
Trip(r) == alone' = Touched(r)

Init ==
    /\ users = {}
    /\ nextId = 1
    /\ req = [r \in Reqs |-> IdleReq]
    /\ alone = [r \in Reqs |-> TRUE]
    /\ deletedOk = [i \in Ids |-> 0]
    /\ Migrated

\* GET /api/users
list_users(r, ok) ==
    /\ Free(r)
    /\ LET q == NewReq("list", 0, None, None)
       IN  IF ok
           THEN \E rows \in RowOrders(users) :
                   req' = Put(r, Respond(q, 200, ListBody(rows)))
           ELSE req' = Put(r, MapErr(q, "DbErr"))
    /\ Trip(r)
    /\ UNCHANGED <<users, nextId, deletedOk, migVars>>

\* GET /api/users/{id}
get_user(r, id, ok) ==
    /\ Free(r)
    /\ LET q == [NewReq("get", id, None, None) EXCEPT !.after = JustCreated]
           found == FindById(users, id)
       IN  IF ok
           THEN req' = Put(r, IF found # None
                              THEN Respond(q, 200, <<ToResponse(found[1])>>)
                              ELSE Respond(q, 404, <<>>))
           ELSE req' = Put(r, MapErr(q, "DbErr"))
    /\ Trip(r)
    /\ UNCHANGED <<users, nextId, deletedOk, migVars>>

\* POST /api/users, first round-trip: User::insert(active).exec(db)
create_insert(r, name, email, ok) ==
    /\ Free(r)
    /\ nextId <= MaxId
    /\ LET q == NewReq("create", 0, Some(name), Some(email))
       IN  IF ok
           THEN /\ users' = users \cup {NewRow(nextId, name, email)}
                /\ nextId' = nextId + 1
                /\ req' = Put(r, [q EXCEPT !.pc = "reread", !.id = nextId])
           ELSE /\ req' = Put(r, MapErr(q, "DbErr"))
                /\ UNCHANGED <<users, nextId>>
    /\ Trip(r)
    /\ UNCHANGED <<deletedOk, migVars>>

\* POST /api/users, second round-trip: User::find_by_id(res.last_insert_id).one(db)
create_reread(r, ok) ==
    /\ req[r].op = "create" /\ req[r].pc = "reread"
    /\ LET created == FindById(users, req[r].id)
       IN  IF ok
           THEN req' = Put(r, IF created # None
                              THEN Respond(req[r], 201, <<ToResponse(created[1])>>)
                              ELSE Respond(req[r], 500, <<>>))
           ELSE req' = Put(r, MapErr(req[r], "DbErr"))
    /\ Trip(r)
    /\ UNCHANGED <<users, nextId, deletedOk, migVars>>

\* PUT /api/users/{id}, first round-trip: User::find_by_id(id).one(db), then
\* the ActiveModel is built from the row found and the request body.
update_find(r, id, name, email, ok) ==
    /\ Free(r)
    /\ LET q == NewReq("update", id, name, email)
           existing == FindById(users, id)
       IN  IF ok
           THEN req' = Put(r,
                   IF existing # None
                   THEN [q EXCEPT !.pc = "write",
                                  !.active = Some(ApplyBody(IntoActiveModel(existing[1]),
                                                            name, email))]
                   ELSE Respond(q, 404, <<>>))
           ELSE req' = Put(r, MapErr(q, "DbErr"))
    /\ Trip(r)
    /\ UNCHANGED <<users, nextId, deletedOk, migVars>>

\* PUT /api/users/{id}, second round-trip: active.update(db)
update_write(r, ok) ==
    /\ req[r].op = "update" /\ req[r].pc = "write"
    /\ LET active == req[r].active[1]
           updated == UpdateResult(users, active)
       IN  IF ok
           THEN /\ users' = UpdateTable(users, active)
                /\ req' = Put(r, IF updated # None
                                 THEN Respond(req[r], 200, <<ToResponse(updated[1])>>)
                                 ELSE MapErr(req[r], "RecordNotUpdated"))
           ELSE /\ req' = Put(r, MapErr(req[r], "DbErr"))
                /\ UNCHANGED users
    /\ Trip(r)
    /\ UNCHANGED <<nextId, deletedOk, migVars>>

\* DELETE /api/users/{id}
delete_user(r, id, ok) ==
    /\ Free(r)
    /\ LET q == NewReq("delete", id, None, None)
           status == DeleteStatus(RowsAffected(users, id))
       IN  IF ok
           THEN /\ users' = DeleteTable(users, id)
                /\ req' = Put(r, Respond(q, status, <<>>))
                /\ deletedOk' = [deletedOk EXCEPT ![id] = IF status = 200 THEN @ + 1 ELSE @]
           ELSE /\ req' = Put(r, MapErr(q, "DbErr"))
                /\ UNCHANGED <<users, deletedOk>>
    /\ Trip(r)
    /\ UNCHANGED <<nextId, migVars>>

\* One round-trip of the handler in slot r; ok: the round-trip does not fail.
Step(r, ok) ==
    \/ list_users(r, ok)
    \/ \E id \in Ids : get_user(r, id, ok)
    \/ \E name \in Strs, email \in Strs : create_insert(r, name, email, ok)
    \/ create_reread(r, ok)
    \/ \E id \in Ids, name \in OptStrs, email \in OptStrs :
            update_find(r, id, name, email, ok)
    \/ update_write(r, ok)
    \/ \E id \in Ids : delete_user(r, id, ok)

Next == \E r \in Reqs, ok \in BOOLEAN : Step(r, ok)

Spec == Init /\ [][Next]_vars

\* The service on a database none of whose round-trips fails.
NextOk == \E r \in Reqs : Step(r, TRUE)

SpecOk == Init /\ [][NextOk]_vars

----------------------------------------------------------------------------
\* A fresh database and the API at rest.
MigInit ==
    /\ users = {}
    /\ nextId = 1
    /\ req = [r \in Reqs |-> IdleReq]
    /\ alone = [r \in Reqs |-> TRUE]
    /\ deletedOk = [i \in Ids |-> 0]
    /\ ledger = EmptyLedger
    /\ tables = {}
    /\ seeded = FALSE
    /\ clock = 1
    /\ mig = IdleMig

\* Migrator::up(db, Some(n)) / up(db, None): n = Len(migrations) stands for all.
MigUp(n) ==
    /\ mig.cmd = "idle"
    /\ mig' = [IdleMig EXCEPT !.cmd = "up", !.left = n]
    /\ UNCHANGED <<apiVars, ledger, tables, seeded, clock>>

\* Migrator::down(db, Some(n)); reset is down of all.
MigDown(n) ==
    /\ mig.cmd = "idle"
    /\ mig' = [IdleMig EXCEPT !.cmd = "down", !.left = n]
    /\ UNCHANGED <<apiVars, ledger, tables, seeded, clock>>

\* Migrator::refresh(db): down of all, then up of all.
MigRefresh ==
    /\ mig.cmd = "idle"
    /\ mig' = [IdleMig EXCEPT !.cmd = "down", !.left = Len(migrations), !.then = "up"]
    /\ UNCHANGED <<apiVars, ledger, tables, seeded, clock>>

\* Migrator::fresh(db): drop every table, the ledger with them, then up of all.
MigFresh ==
    /\ mig.cmd = "idle"
    /\ \E ok \in BOOLEAN :
        IF ok
        THEN /\ tables' = {}
             /\ seeded' = FALSE
             /\ ledger' = EmptyLedger
             /\ mig' = [IdleMig EXCEPT !.cmd = "up", !.left = Len(migrations)]
        ELSE /\ mig' = [IdleMig EXCEPT !.result = "err"]
             /\ UNCHANGED <<ledger, tables, seeded>>
    /\ UNCHANGED <<apiVars, clock>>

\* One step of an up run: migration.up(manager).await?, then the ledger row.
MigStepUp ==
    /\ mig.cmd = "up" /\ mig.left > 0 /\ Pending # {}
    /\ clock <= MaxClock
    /\ LET i == NextUp
       IN  \E ok \in {b \in BOOLEAN : b => UpRuns(i)} :
            IF ok
            THEN /\ tables' = TablesUp(i)
                 /\ seeded' = SeededUp(i)
                 /\ ledger' = [n \in DOMAIN ledger \cup {migrations[i]} |->
                                 IF n = migrations[i] THEN clock ELSE ledger[n]]
                 /\ clock' = clock + 1
                 /\ mig' = [mig EXCEPT !.left = @ - 1]
            ELSE /\ mig' = [IdleMig EXCEPT !.result = "err", !.at = i, !.was = "up"]
                 /\ UNCHANGED <<ledger, tables, seeded, clock>>
    /\ UNCHANGED apiVars

\* One step of a down run: migration.down(manager).await?, then the ledger row goes.
MigStepDown ==
    /\ mig.cmd = "down" /\ mig.left > 0 /\ Applied # {}
    /\ LET i == NextDown
       IN  \E ok \in {b \in BOOLEAN : b => DownRuns(i)} :
            IF ok
            THEN /\ tables' = TablesDown(i)
                 /\ seeded' = SeededDown(i)
                 /\ ledger' = [n \in DOMAIN ledger \ {migrations[i]} |-> ledger[n]]
                 /\ mig' = [mig EXCEPT !.left = @ - 1]
            ELSE /\ mig' = [IdleMig EXCEPT !.result = "err", !.at = i, !.was = "down"]
                 /\ UNCHANGED <<ledger, tables, seeded>>
    /\ UNCHANGED <<apiVars, clock>>

\* The run has no step left to do: it returns Ok, or goes on to refresh's up.
MigDone ==
    /\ \/ mig.cmd = "up" /\ (mig.left = 0 \/ Pending = {})
       \/ mig.cmd = "down" /\ (mig.left = 0 \/ Applied = {})
    /\ mig' = IF mig.then = "up"
              THEN [IdleMig EXCEPT !.cmd = "up", !.left = Len(migrations)]
              ELSE [IdleMig EXCEPT !.result = "ok"]
    /\ UNCHANGED <<apiVars, ledger, tables, seeded, clock>>

MigNext ==
    \/ \E n \in 1..Len(migrations) : MigUp(n)
    \/ \E n \in 1..Len(migrations) : MigDown(n)
    \/ MigRefresh
    \/ MigFresh
    \/ MigStepUp
    \/ MigStepDown
    \/ MigDone

SpecMig == MigInit /\ [][MigNext]_vars

----------------------------------------------------------------------------
\* The properties.  In the action formulas, First(r) says that the step is the
\* first round-trip of a request that enters slot r.
First(r) == Free(r) /\ req'[r] # req[r] /\ req'[r].pc # "idle"

\* The response body a row is expected to give.
Dto(id, name, email) == [id |-> id, name |-> name, email |-> email]

\* C1: a CREATE(name, email) that has run alone and responded 201 with id i,
\* directly followed by GET(i) whose round-trip does not fail, makes GET respond
\* 200 with the body {i, name, email} of the values passed to CREATE.
C1_CreateThenGet ==
    [][\A r1, r2 \in Reqs :
        ( /\ req[r1].op = "create" /\ req[r1].pc = "done" /\ req[r1].status = 201
          /\ alone[r1]
          /\ First(r2)
          /\ req'[r2].op = "get" /\ req'[r2].id = req[r1].body[1].id
          /\ req'[r2].err = "none" )
        => /\ req'[r2].pc = "done"
           /\ req'[r2].status = 200
           /\ req'[r2].body = <<Dto(req[r1].body[1].id, req[r1].name[1], req[r1].email[1])>>
      ]_vars

\* A GET has responded 200 for the id of the CREATE it directly followed.
C1_Witness ==
    \E r \in Reqs :
        /\ req[r].op = "get" /\ req[r].pc = "done" /\ req[r].status = 200
        /\ req[r].after = req[r].id
        /\ Cardinality(users) = 2

\* C2: for an id that is not the id of a stored row, GET(id), UPDATE(id, body)
\* and DELETE(id) whose round-trip does not fail respond 404 and leave the
\* table as it was.
C2_AbsentIs404 ==
    [][\A r \in Reqs :
        ( /\ First(r)
          /\ req'[r].op \in {"get", "update", "delete"}
          /\ FindById(users, req'[r].id) = None
          /\ req'[r].err # "DbErr" )
        => /\ req'[r].pc = "done"
           /\ req'[r].status = 404
           /\ users' = users
      ]_vars

\* An UPDATE with a body has responded 404 for the id of a deleted row while
\* another row is stored.
C2_Witness ==
    \E r \in Reqs :
        /\ req[r].op = "update" /\ req[r].pc = "done" /\ req[r].status = 404
        /\ req[r].name # None
        /\ deletedOk[req[r].id] = 1
        /\ users # {}

\* C3: an UPDATE(id, body) that runs alone on a stored row changes the fields
\* its body holds and nothing else: the other field, the id and every other row
\* are as before, and the 200 response carries the resulting id, name, email.
C3_PartialUpdate ==
    [][\A r \in Reqs :
        ( /\ req[r].op = "update" /\ req[r].pc = "write" /\ alone[r]
          /\ req'[r].pc = "done"
          /\ req'[r].err # "DbErr" )
        => LET id == req[r].id
               old == FindById(users, id)
               new == FindById(users', id)
           IN  /\ old # None /\ new # None
               /\ new[1].name = (IF req[r].name = None THEN old[1].name ELSE req[r].name[1])
               /\ new[1].email = (IF req[r].email = None THEN old[1].email ELSE req[r].email[1])
               /\ new[1].created_at = old[1].created_at
               /\ {u \in users' : u.id # id} = {u \in users : u.id # id}
               /\ Cardinality(users') = Cardinality(users)
               /\ req'[r].status = 200
               /\ req'[r].body = <<Dto(id, new[1].name, new[1].email)>>
      ]_vars

\* An UPDATE with only an email has run alone and responded 200 while two rows
\* are stored.
C3_Witness ==
    \E r \in Reqs :
        /\ req[r].op = "update" /\ req[r].pc = "done" /\ req[r].status = 200
        /\ alone[r]
        /\ req[r].name = None /\ req[r].email # None
        /\ Cardinality(users) = 2

\* C4: DELETE(id) on a stored row responds 200 and removes that row and no
\* other; after it, every GET(id) and DELETE(id) responds 404 (ids are not
\* handed out twice), the row is not stored again, and so DELETE(id) responds
\* 200 at most once.  Round-trips that fail are left aside.
C4_DeleteOnce ==
    [][ /\ \A r \in Reqs :
            ( /\ First(r)
              /\ req'[r].op \in {"get", "delete"}
              /\ req'[r].err # "DbErr" )
            => LET id == req'[r].id
                   row == FindById(users, id)
               IN  /\ (req'[r].op = "delete" /\ row # None)
                        => /\ req'[r].status = 200
                           /\ users' = users \ {row[1]}
                           /\ FindById(users', id) = None
                   /\ deletedOk[id] >= 1 => req'[r].status = 404
        /\ \A i \in Ids :
            /\ deletedOk'[i] <= 1
            /\ deletedOk'[i] >= 1 => FindById(users', i) = None
      ]_vars

\* A second DELETE of an id has responded 404.
C4_Witness ==
    \E r \in Reqs :
        /\ req[r].op = "delete" /\ req[r].pc = "done" /\ req[r].status = 404
        /\ deletedOk[req[r].id] = 1
        /\ users # {}

\* C5: a LIST whose round-trip does not fail responds 200 with one entry per
\* stored row: none before any insert; exactly N, with pairwise distinct ids,
\* when N CREATEs have inserted their row and no DELETE has removed one; every
\* entry is the {id, name, email} of a stored row.
C5_List ==
    [][\A r \in Reqs :
        ( /\ First(r)
          /\ req'[r].op = "list"
          /\ req'[r].err # "DbErr" )
        => LET body == req'[r].body
           IN  /\ req'[r].status = 200
               /\ nextId = 1 => body = <<>>
               /\ (\A i \in Ids : deletedOk[i] = 0) => Len(body) = nextId - 1
               /\ \A i, j \in DOMAIN body : i # j => body[i].id # body[j].id
               /\ \A i \in DOMAIN body :
                    \E u \in users : body[i] = Dto(u.id, u.name, u.email)
      ]_vars

\* A LIST has responded with two entries after two inserts and no delete.
C5_Witness ==
    \E r \in Reqs :
        /\ req[r].op = "list" /\ req[r].pc = "done" /\ req[r].status = 200
        /\ Len(req[r].body) = 2 /\ nextId = 3
        /\ \A i \in Ids : deletedOk[i] = 0

\* C6: a handler whose round-trip has failed has returned (it does no further
\* round-trip) and its response is 500, never 200, 201 or 404.
C6_FailureIs500 ==
    \A r \in Reqs :
        /\ req[r].err # "none" => req[r].pc = "done" /\ req[r].status = 500
        /\ req[r].status \in {200, 201, 404} => req[r].err = "none"

\* A CREATE whose insert succeeded has failed on its re-read.
C6_Witness ==
    \E r \in Reqs :
        /\ req[r].err = "DbErr" /\ req[r].status = 500
        /\ req[r].op = "create" /\ req[r].id # 0

\* C8 as stated: with no round-trip failing, a CREATE never responds 500.
C8_Original ==
    \A r \in Reqs :
        (req[r].op = "create" /\ req[r].pc = "done" /\ req[r].err = "none")
        => req[r].status = 201

\* C8, amended: with no round-trip failing, a CREATE whose insert succeeded
\* responds 201 with the row it re-reads under the id of its insert (the values
\* it inserted when it ran alone), unless a DELETE of that id ran between its
\* insert and its re-read; then it responds 500.
C8_Amended ==
    \A r \in Reqs :
        (req[r].op = "create" /\ req[r].pc = "done" /\ req[r].err = "none")
        => \/ /\ req[r].status = 201
              /\ Len(req[r].body) = 1
              /\ req[r].body[1].id = req[r].id
              /\ alone[r] => req[r].body = <<Dto(req[r].id, req[r].name[1], req[r].email[1])>>
           \/ /\ req[r].status = 500
              /\ ~alone[r]
              /\ deletedOk[req[r].id] >= 1

\* A CREATE has responded 201 although another request did a round-trip
\* between its insert and its re-read.
C8_Witness ==
    \E r \in Reqs :
        /\ req[r].op = "create" /\ req[r].pc = "done" /\ req[r].err = "none"
        /\ req[r].status = 201 /\ ~alone[r]

\* C9: when DELETE(id) has responded 200 after an UPDATE(id, body) found the
\* row and before that UPDATE writes, the write inserts nothing: the table is
\* as before it and holds no row with that id.
C9_NoResurrection ==
    [][\A r \in Reqs :
        ( /\ req[r].op = "update" /\ req[r].pc = "write"
          /\ deletedOk[req[r].id] >= 1
          /\ req'[r].pc = "done" )
        => /\ users' = users
           /\ FindById(users', req[r].id) = None
      ]_vars

\* An UPDATE has written after the DELETE of its row: no row matched.
C9_Witness ==
    \E r \in Reqs :
        /\ req[r].op = "update" /\ req[r].pc = "done"
        /\ req[r].err = "RecordNotUpdated"
        /\ deletedOk[req[r].id] = 1
        /\ FindById(users, req[r].id) = None

\* C10: when an UPDATE with only a name and an UPDATE with only an email on
\* the same row interleave, the second to write following the 200 response of
\* the first, the row holds the new name and the new email after the second
\* write, which responds 200: neither change is lost.
C10_NoLostUpdate ==
    [][\A r1, r2 \in Reqs :
        ( /\ r1 # r2
          /\ req[r1].op = "update" /\ req[r1].pc = "done" /\ req[r1].status = 200
          /\ req[r2].op = "update" /\ req[r2].pc = "write" /\ req[r2].id = req[r1].id
          /\ \/ /\ req[r1].name # None /\ req[r1].email = None
                /\ req[r2].name = None /\ req[r2].email # None
             \/ /\ req[r1].name = None /\ req[r1].email # None
                /\ req[r2].name # None /\ req[r2].email = None
          /\ req'[r2].pc = "done"
          /\ req'[r2].err # "DbErr" )
        => LET row == FindById(users', req[r2].id)
               name == IF req[r1].name # None THEN req[r1].name ELSE req[r2].name
               email == IF req[r1].email # None THEN req[r1].email ELSE req[r2].email
           IN  /\ row # None
               /\ row[1].name = name[1]
               /\ row[1].email = email[1]
               /\ req'[r2].status = 200
      ]_vars

\* An UPDATE with only an email has responded 200 with a name that is not the
\* one it read: another UPDATE changed the name between its find and its write.
C10_Witness ==
    \E r \in Reqs :
        /\ req[r].op = "update" /\ req[r].pc = "done" /\ req[r].status = 200
        /\ req[r].name = None /\ req[r].email # None
        /\ ~alone[r]
        /\ req[r].active[1].name[1] = "Unchanged"
        /\ req[r].active[1].name[2] # req[r].body[1].name
        /\ FindById(users, req[r].id) # None
        /\ FindById(users, req[r].id)[1].email = req[r].email[1]

\* C7: the ledger holds a prefix of the registered list (posts table, users
\* table, seed), stamped in that order, so the seed is never applied without
\* the posts table step; and a step of an up run that fails ends the run with
\* neither that step nor a later one applied.
C7_MigrationOrder ==
    LET Registered == <<"m20220101_000001_post", "m20260121_020308_users",
                        "m20220120_000002_seed_posts">>
    IN  /\ \E k \in 0..3 : DOMAIN ledger = {Registered[i] : i \in 1..k}
        /\ "m20220120_000002_seed_posts" \in DOMAIN ledger
              => "m20220101_000001_post" \in DOMAIN ledger
        /\ \A i, j \in 1..3 :
              (i < j /\ Registered[j] \in DOMAIN ledger)
              => /\ Registered[i] \in DOMAIN ledger
                 /\ ledger[Registered[i]] < ledger[Registered[j]]
        /\ mig.result = "err" => mig.cmd = "idle"
        /\ (mig.result = "err" /\ mig.was = "up")
              => \A j \in 1..3 : j >= mig.at => Registered[j] \notin DOMAIN ledger
        /\ (mig.result = "err" /\ mig.was = "down")
              => \A j \in 1..3 : j <= mig.at => Registered[j] \in DOMAIN ledger

\* After steps were applied and reverted, an up run has failed on the seed with
\* the two table steps applied.
C7_Witness ==
    /\ mig.result = "err" /\ mig.was = "up" /\ mig.at = 3
    /\ Cardinality(DOMAIN ledger) = 2
    /\ clock > 3

====
